---- MODULE Spec2Model ----
(***************************************************************************)
(* Endpoint / version / alias resolution of package api                    *)
(* (hung0913208/Automation).  The registry (ApiServer) owns the endpoints  *)
(* by name and a gorilla/mux router; every endpoint (Api) owns its         *)
(* versions, its aliases and its default method-to-version map             *)
(* (mainlines).  Strings are TLA+ strings: \o is concatenation, SubSeq     *)
(* and Len index them as Go indexes bytes.                                 *)
(***************************************************************************)
EXTENDS Integers, Sequences, FiniteSets, TLC

VARIABLES srv, user_agent, panicked, resp, ncalls

vars == <<srv, user_agent, panicked, resp, ncalls>>

(* ------------------------------ bounds -------------------------------- *)

\* number of configuration and operator calls made on the registry, the
\* chain of NewApiServer not counted
MaxCalls == 4

(* ------------------------------ inputs -------------------------------- *)

EndpointNames == {"query", "ping"}
VersionCodes == {"v1", "v2"}
Methods == {"PUT", "GET"}
Handlers == {"resolve", "pong"}
\* the method strings handle is called with
BindMethods == {"PUT", "GET", "put"}
AliasPaths == {"/alias"}
MockPaths == {"/query", "/ping"}
Agents == {"test", "curl"}
RemoteAddrs == {"127.0.0.1:4000", "10.0.0.9:4000"}
LocalAddrs == {"127.0.0.1:4000"}
RequestPaths == {"/query", "/alias", "/v1/query", "/v2/query", "/v2/ping"}
Levels == {0, 1, 2, 3}

Requests == [path : RequestPaths, Method : Methods,
             UserAgent : Agents, RemoteAddr : RemoteAddrs]

(* ----------------------------- constants ------------------------------ *)

PUBLIC == 0
PRIVATE == 1
PROTECTED == 2

(* ------------------------------ helpers ------------------------------- *)

\* a Go map: m[k] = v
Put(m, k, v) == [x \in DOMAIN m \cup {k} |-> IF x = k THEN v ELSE m[x]]

EmptyMap == [x \in {} |-> 0]

NoPanic == [raised |-> FALSE, msg |-> ""]
Panic(msg) == [raised |-> TRUE, msg |-> msg]

NoHandler == "none"

(* --------------------------- response helper -------------------------- *)

\* pack(w)(code, message): message[0] of an empty message is an index out
\* of range, a run-time panic
pack(code, message) ==
  IF Len(message) = 0
  THEN [panic |-> TRUE, body |-> ""]
  ELSE IF SubSeq(message, 1, 1) = "{" /\ SubSeq(message, Len(message), Len(message)) = "}"
  THEN [panic |-> FALSE,
        body |-> "{\"code\": " \o ToString(code) \o ", \"data\": " \o message \o "}"]
  ELSE IF SubSeq(message, 1, 1) = "[" /\ SubSeq(message, Len(message), Len(message)) = "]"
  THEN [panic |-> FALSE,
        body |-> "{\"code\": " \o ToString(code) \o ", \"data\": " \o message \o "}"]
  ELSE [panic |-> FALSE,
        body |-> "{\"code\": " \o ToString(code) \o ", \"data\": \"" \o message \o "\"}"]

\* the response a closure leaves in the ResponseWriter: nothing in the code
\* calls WriteHeader, so a written body goes out with status 200
Written(p, h) ==
  [status |-> 200, body |-> p.body, invoked |-> h, panic |-> p.panic]

nok(code, message) == Written(pack(code, message), NoHandler)

ok(message) == Written(pack(200, message), NoHandler)

\* ApiServer.resolve only prints the remote address
resolve(r) == [status |-> 200, body |-> "", invoked |-> "resolve", panic |-> FALSE]

\* a handler of the end-to-end scenario: answers the literal string pong
pong(r) == [ok("pong") EXCEPT !.invoked = "pong"]

CallHandler(h, r) == IF h = "resolve" THEN resolve(r) ELSE pong(r)

(* ------------------------------ access -------------------------------- *)

isLocal(s, r) == FALSE

\* mutant: every caller counts as internal
isInternal_open(s, r) == TRUE

isInternal(s, r) == FALSE

\* mutant: the enabled flag is not consulted
isAllowed_noenable(s, api, r) ==
  CASE api.level = PUBLIC -> TRUE
    [] api.level = PRIVATE -> isLocal(s, r)
    [] api.level = PROTECTED -> isInternal(s, r)
    [] OTHER -> FALSE

isAllowed(s, api, r) ==
  IF ~ api.enable THEN FALSE
  ELSE CASE api.level = PUBLIC -> TRUE
         [] api.level = PRIVATE -> isLocal(s, r)
         [] api.level = PROTECTED -> isInternal(s, r)
         [] OTHER -> FALSE

(* --------------------------- dispatch closures ------------------------ *)

\* mutant: a denied request is told that the handler exists
reorder_forbidden(s, endpoint, code, r) ==
  IF endpoint \notin DOMAIN s.endpoints
  THEN nok(404, "Not found " \o endpoint)
  ELSE LET api == s.endpoints[endpoint] IN
    IF code \notin DOMAIN api.versions
    THEN nok(404, "Not found " \o endpoint)
    ELSE LET ver == api.versions[code] IN
      IF r.Method \notin DOMAIN ver.methods
      THEN nok(404, "Not found " \o endpoint)
      ELSE IF isAllowed(s, api, r)
      THEN CallHandler(ver.methods[r.Method], r)
      ELSE nok(403, "Forbidden " \o endpoint)

\* the closure returned by ApiServer.reorder(endpoint, code)
reorder(s, endpoint, code, r) ==
  IF endpoint \notin DOMAIN s.endpoints
  THEN nok(404, "Not found " \o endpoint)
  ELSE LET api == s.endpoints[endpoint] IN
    IF code \notin DOMAIN api.versions
    THEN nok(404, "Not found " \o endpoint)
    ELSE LET ver == api.versions[code] IN
      IF r.Method \notin DOMAIN ver.methods
      THEN nok(404, "Not found " \o endpoint)
      ELSE IF isAllowed(s, api, r)
      THEN CallHandler(ver.methods[r.Method], r)
      ELSE nok(404, "Not found " \o endpoint)

\* a Go map read: the zero value "" when the key is absent
CodeOf(a, method) == IF method \in DOMAIN a.code THEN a.code[method] ELSE ""

\* mutant: the alias resolves through the version being configured instead
\* of its snapshot
aliasClosure_current(s, self, path, r) ==
  LET api == s.endpoints[self]
      code == api.main IN
    IF code \notin DOMAIN api.versions
    THEN nok(404, "Not found " \o path)
    ELSE LET ver == api.versions[code] IN
      IF r.Method \notin DOMAIN ver.methods
      THEN nok(404, "Not found " \o path)
      ELSE IF isAllowed(s, api, r)
      THEN CallHandler(ver.methods[r.Method], r)
      ELSE nok(404, "Not found " \o path)

\* mutant: the version found for the method is used without the ok test, a
\* nil dereference when the snapshot has no version for it
aliasClosure_nilver(s, self, path, r) ==
  LET api == s.endpoints[self]
      code == CodeOf(api.aliases[path], r.Method) IN
    IF code \notin DOMAIN api.versions
    THEN [status |-> 0, body |-> "", invoked |-> NoHandler, panic |-> TRUE]
    ELSE LET ver == api.versions[code] IN
      IF r.Method \notin DOMAIN ver.methods
      THEN nok(404, "Not found " \o path)
      ELSE IF isAllowed(s, api, r)
      THEN CallHandler(ver.methods[r.Method], r)
      ELSE nok(404, "Not found " \o path)

\* the closure Api.alias registers for path; self is the endpoint name
aliasClosure(s, self, path, r) ==
  LET api == s.endpoints[self]
      code == CodeOf(api.aliases[path], r.Method) IN
    IF code \notin DOMAIN api.versions
    THEN nok(404, "Not found " \o path)
    ELSE LET ver == api.versions[code] IN
      IF r.Method \notin DOMAIN ver.methods
      THEN nok(404, "Not found " \o path)
      ELSE IF isAllowed(s, api, r)
      THEN CallHandler(ver.methods[r.Method], r)
      ELSE nok(404, "Not found " \o path)

\* a registered route: the path and the closure (which function made it and
\* what it captured)
Route(path, fn, endpoint, arg) ==
  [path |-> path, fn |-> fn, endpoint |-> endpoint, arg |-> arg]

CallRoute(s, rt, r) ==
  IF rt.fn = "reorder"
  THEN reorder(s, rt.endpoint, rt.arg, r)
  ELSE aliasClosure(s, rt.endpoint, rt.arg, r)

\* mux.Router.HandleFunc appends a route
HandleFunc(s, rt) == [s EXCEPT !.router = Append(@, rt)]

\* mux answers an unmatched path itself (http.NotFound)
MuxNotFound ==
  [status |-> 404, body |-> "404 page not found\n", invoked |-> NoHandler,
   panic |-> FALSE]

Matching(s, r) == {i \in 1..Len(s.router) : s.router[i].path = r.path}

FirstMatch(s, r) == CHOOSE i \in Matching(s, r) : \A j \in Matching(s, r) : i <= j

\* mux.Router.ServeHTTP: the first registered route matching the path
ServeHTTP(s, r) ==
  IF Matching(s, r) = {}
  THEN MuxNotFound
  ELSE CallRoute(s, s.router[FirstMatch(s, r)], r)

\* mutant: the alias closure refreshes its snapshot from the defaults when
\* it is called
Dispatched_memo(s, r) ==
  IF Matching(s, r) = {} THEN s
  ELSE LET rt == s.router[FirstMatch(s, r)] IN
    IF rt.fn = "alias"
    THEN [s EXCEPT !.endpoints[rt.endpoint].aliases[rt.arg].code =
                      s.endpoints[rt.endpoint].mainlines]
    ELSE s

\* the registry after the dispatch of r: the closures and isAllowed only
\* read the maps and the fields of the endpoint, they assign nothing
Dispatched(s, r) == s

(* --------------------------- configuration ---------------------------- *)

\* the result of a configuration call: the registry it leaves and the panic
\* it raised, if any
Ret(s) == [srv |-> s, panic |-> NoPanic]
Raise(s, msg) == [srv |-> s, panic |-> Panic(msg)]

newApi(name) ==
  [main |-> "", name |-> name, enable |-> TRUE, level |-> 0,
   aliases |-> EmptyMap, versions |-> EmptyMap, mainlines |-> EmptyMap]

\* mutant: every reference installs a new endpoint
endpoint_fresh(s, name) ==
  [s EXCEPT !.endpoints = Put(@, name, newApi(name))]

endpoint(s, name) ==
  IF name \notin DOMAIN s.endpoints
  THEN [s EXCEPT !.endpoints = Put(@, name, newApi(name))]
  ELSE s

\* mutant: the alias is created without copying the default map
alias_nosnapshot(s, self, path) ==
  LET api == s.endpoints[self] IN
    IF path \in DOMAIN api.aliases
    THEN Raise(s, "redefine alias " \o path)
    ELSE LET a == [code |-> EmptyMap]
             s1 == [s EXCEPT !.endpoints[self].aliases = Put(@, path, a)] IN
           Ret(HandleFunc(s1, Route(path, "alias", self, path)))

\* mutant: the snapshot records the version being configured for every
\* method that has a default
alias_current(s, self, path) ==
  LET api == s.endpoints[self] IN
    IF path \in DOMAIN api.aliases
    THEN Raise(s, "redefine alias " \o path)
    ELSE LET a == [code |-> [key \in DOMAIN api.mainlines |-> api.main]]
             s1 == [s EXCEPT !.endpoints[self].aliases = Put(@, path, a)] IN
           Ret(HandleFunc(s1, Route(path, "alias", self, path)))

alias(s, self, path) ==
  LET api == s.endpoints[self] IN
    IF path \in DOMAIN api.aliases
    THEN Raise(s, "redefine alias " \o path)
    ELSE LET a == [code |-> [key \in DOMAIN api.mainlines |-> api.mainlines[key]]]
             s1 == [s EXCEPT !.endpoints[self].aliases = Put(@, path, a)] IN
           Ret(HandleFunc(s1, Route(path, "alias", self, path)))

\* mutant: selecting a version always installs an empty one
version_reset(s, self, code) ==
  LET s1 == [s EXCEPT !.endpoints[self].versions =
                        Put(@, code, [methods |-> EmptyMap])] IN
    Ret([s1 EXCEPT !.endpoints[self].main = code])

version(s, self, code) ==
  LET api == s.endpoints[self]
      s1 == IF code \notin DOMAIN api.versions
            THEN [s EXCEPT !.endpoints[self].versions =
                              Put(@, code, [methods |-> EmptyMap])]
            ELSE s IN
    Ret([s1 EXCEPT !.endpoints[self].main = code])

\* mutant: the default is recorded before the version is checked
handle_latecheck(s, self, method, handler) ==
  LET api == s.endpoints[self]
      s1 == IF method \notin DOMAIN api.mainlines
            THEN [s EXCEPT !.endpoints[self].mainlines = Put(@, method, api.main)]
            ELSE s IN
    IF Len(api.main) = 0
    THEN Raise(s1, "Please specifiy version before doing anything")
    ELSE IF api.main \notin DOMAIN api.versions
    THEN Raise(s1, "There is something wrong with creating new version")
    ELSE Ret([s1 EXCEPT !.endpoints[self].versions[api.main].methods =
                          Put(@, method, handler)])

\* mutant: every binding overwrites the default version of the method
handle_overwrite(s, self, method, handler) ==
  LET api == s.endpoints[self] IN
    IF Len(api.main) = 0
    THEN Raise(s, "Please specifiy version before doing anything")
    ELSE IF api.main \notin DOMAIN api.versions
    THEN Raise(s, "There is something wrong with creating new version")
    ELSE LET s1 == [s EXCEPT !.endpoints[self].mainlines = Put(@, method, api.main)] IN
           Ret([s1 EXCEPT !.endpoints[self].versions[api.main].methods =
                             Put(@, method, handler)])

\* mutant: the handler is bound in every version of the endpoint
handle_allversions(s, self, method, handler) ==
  LET api == s.endpoints[self] IN
    IF Len(api.main) = 0
    THEN Raise(s, "Please specifiy version before doing anything")
    ELSE IF api.main \notin DOMAIN api.versions
    THEN Raise(s, "There is something wrong with creating new version")
    ELSE LET s1 == IF method \notin DOMAIN api.mainlines
                   THEN [s EXCEPT !.endpoints[self].mainlines = Put(@, method, api.main)]
                   ELSE s IN
           Ret([s1 EXCEPT !.endpoints[self].versions =
                  [v \in DOMAIN @ |-> [methods |-> Put(@[v].methods, method, handler)]]])

handle(s, self, method, handler) ==
  LET api == s.endpoints[self] IN
    IF Len(api.main) = 0
    THEN Raise(s, "Please specifiy version before doing anything")
    ELSE IF api.main \notin DOMAIN api.versions
    THEN Raise(s, "There is something wrong with creating new version")
    ELSE LET s1 == IF method \notin DOMAIN api.mainlines
                   THEN [s EXCEPT !.endpoints[self].mainlines = Put(@, method, api.main)]
                   ELSE s IN
           Ret([s1 EXCEPT !.endpoints[self].versions[api.main].methods =
                             Put(@, method, handler)])

RECURSIVE mockLoop(_, _, _, _)
mockLoop(s, self, vers, path) ==
  IF vers = <<>> THEN s
  ELSE LET ver == Head(vers)
           dest == IF Len(s.base) > 0
                   THEN "/" \o s.base \o "/" \o ver \o path
                   ELSE "/" \o ver \o path IN
         mockLoop(HandleFunc(s, Route(dest, "reorder", self, ver)),
                  self, Tail(vers), path)

\* mutant: only the version being configured gets a route
mock_currentonly(s, self, path, order) ==
  LET s1 == mockLoop(s, self, SelectSeq(order, LAMBDA v : v = s.endpoints[self].main), path)
      p == IF Len(s.base) > 0 THEN "/" \o s.base \o path ELSE path IN
    alias(s1, self, p)

mock(s, self, path, order) ==
  LET s1 == mockLoop(s, self, order, path)
      p == IF Len(s.base) > 0 THEN "/" \o s.base \o path ELSE path IN
    alias(s1, self, p)

\* NewApiServer up to the creation of the router and the endpoint map
EmptyServer == [endpoints |-> EmptyMap, router |-> <<>>, base |-> "", agent |-> ""]

\* the chain of NewApiServer on the fresh registry
NewApiServer(s, agent) ==
  LET s1 == endpoint(s, "query")
      r2 == version(s1, "query", "v1")
      r3 == mock(r2.srv, "query", "/query", <<"v1">>)
  IN handle(r3.srv, "query", "PUT", "resolve")

(* ------------------------------ state --------------------------------- *)

\* no request is being served
NoResp == [status |-> 0, body |-> "", invoked |-> NoHandler, panic |-> FALSE]

\* the orders in which a Go range may visit the keys of a map
Orders(S) == {q \in [1..Cardinality(S) -> S] : \A i, j \in DOMAIN q : i # j => q[i] # q[j]}

Init ==
  /\ srv = EmptyServer
  /\ user_agent \in {"test"}
  /\ panicked = NoPanic
  /\ resp = NoResp
  /\ ncalls = 0

\* a panic is not recovered anywhere: the process is gone.  Configuration is
\* single-threaded and a request is served to its end before the next call.
Running == ~ panicked.raised /\ resp = NoResp

Configure(r) ==
  /\ srv' = r.srv
  /\ panicked' = r.panic
  /\ UNCHANGED <<user_agent, resp>>

\* api.NewApiServer(user_agent)
Construct ==
  /\ Running
  /\ ncalls = 0
  /\ srv = EmptyServer
  /\ Configure(NewApiServer(srv, user_agent))
  /\ UNCHANGED ncalls

\* srv.endpoint(name)
CallEndpoint(name) ==
  /\ Running
  /\ ncalls < MaxCalls
  /\ ncalls' = ncalls + 1
  /\ Configure(Ret(endpoint(srv, name)))

\* srv.endpoint(name).version(code)
CallVersion(name, code) ==
  /\ Running
  /\ ncalls < MaxCalls
  /\ ncalls' = ncalls + 1
  /\ Configure(version(endpoint(srv, name), name, code))

\* srv.endpoint(name).handle(method, handler)
CallHandle(name, method, handler) ==
  /\ Running
  /\ ncalls < MaxCalls
  /\ ncalls' = ncalls + 1
  /\ Configure(handle(endpoint(srv, name), name, method, handler))

\* srv.endpoint(name).alias(path)
CallAlias(name, path) ==
  /\ Running
  /\ ncalls < MaxCalls
  /\ ncalls' = ncalls + 1
  /\ Configure(alias(endpoint(srv, name), name, path))

\* srv.endpoint(name).mock(path)
CallMock(name, path) ==
  /\ Running
  /\ ncalls < MaxCalls
  /\ ncalls' = ncalls + 1
  /\ LET s == endpoint(srv, name) IN
       \E order \in Orders(DOMAIN s.endpoints[name].versions) :
         Configure(mock(s, name, path, order))

\* the operator flips the level of an endpoint
SetLevel(name, level) ==
  /\ Running
  /\ ncalls < MaxCalls
  /\ ncalls' = ncalls + 1
  /\ name \in DOMAIN srv.endpoints
  /\ srv.endpoints[name].level # level
  /\ Configure(Ret([srv EXCEPT !.endpoints[name].level = level]))

\* the operator flips the enabled flag of an endpoint
SetEnable(name, enable) ==
  /\ Running
  /\ ncalls < MaxCalls
  /\ ncalls' = ncalls + 1
  /\ name \in DOMAIN srv.endpoints
  /\ srv.endpoints[name].enable # enable
  /\ Configure(Ret([srv EXCEPT !.endpoints[name].enable = enable]))

\* one request through the router: the response it leaves in the writer
Serve(r) ==
  /\ Running
  /\ resp' = ServeHTTP(srv, r)
  /\ srv' = Dispatched(srv, r)
  /\ UNCHANGED <<user_agent, panicked, ncalls>>

\* the response is sent and the request is over
Finish ==
  /\ resp # NoResp
  /\ resp' = NoResp
  /\ UNCHANGED <<srv, user_agent, panicked, ncalls>>

Next ==
  \/ Construct
  \/ \E name \in EndpointNames : CallEndpoint(name)
  \/ \E name \in EndpointNames, code \in VersionCodes : CallVersion(name, code)
  \/ \E name \in EndpointNames, method \in BindMethods, handler \in Handlers :
       CallHandle(name, method, handler)
  \/ \E name \in EndpointNames, path \in AliasPaths : CallAlias(name, path)
  \/ \E name \in EndpointNames, path \in MockPaths : CallMock(name, path)
  \/ \E name \in EndpointNames, level \in Levels : SetLevel(name, level)
  \/ \E name \in EndpointNames, enable \in BOOLEAN : SetEnable(name, enable)
  \/ \E r \in Requests : Serve(r)
  \/ Finish

Spec == Init /\ [][Next]_vars

TypeOK == ncalls \in 0..MaxCalls

(* ------------------------- vocabulary of the claims -------------------- *)

\* the request carries the identity given to NewApiServer / comes from a
\* loopback address
Trusted(r) == r.UserAgent = user_agent
Local(r) == r.RemoteAddr \in LocalAddrs

Idle == ~ panicked.raised /\ resp = NoResp

\* the route the router picks for a request
Routed(s, r) == Matching(s, r) # {}
Target(s, r) == s.router[FirstMatch(s, r)]

\* the 404-coded envelope with a quoted message
Envelope404(msg) ==
  [status |-> 200, body |-> "{\"code\": 404, \"data\": \"" \o msg \o "\"}",
   invoked |-> NoHandler, panic |-> FALSE]

Named == EndpointNames \cup AliasPaths \cup MockPaths \cup RequestPaths

IsNotFound(out) == \E x \in Named : out = Envelope404("Not found " \o x)

\* every alias path declared by some endpoint of the registry
DeclaredAliases(s) == UNION {DOMAIN s.endpoints[e].aliases : e \in DOMAIN s.endpoints}

Req(path, method) ==
  {r \in Requests : r.path = path /\ r.Method = method}

(* ------------------------------- C1 ------------------------------------ *)

\* C1: alias uniqueness is registry-wide: alias(path) on any endpoint raises
\* a configuration error whenever some endpoint of the registry (the same or
\* another) has already declared that path; the second declaration is never
\* accepted.
C1_AliasUniqueRegistryWide ==
  [][\A name \in EndpointNames, path \in AliasPaths :
       (CallAlias(name, path) /\ path \in DeclaredAliases(srv))
         => (panicked'.raised /\ srv'.router = srv.router)]_vars

(* ------------------------------- C2 ------------------------------------ *)

\* the snapshot an alias holds is the default map at its declaration and no
\* later call changes it
C2_Frozen ==
  \A e \in DOMAIN srv'.endpoints : \A a \in DOMAIN srv'.endpoints[e].aliases :
    IF e \in DOMAIN srv.endpoints /\ a \in DOMAIN srv.endpoints[e].aliases
    THEN srv'.endpoints[e].aliases[a] = srv.endpoints[e].aliases[a]
    ELSE srv'.endpoints[e].aliases[a].code =
           (IF e \in DOMAIN srv.endpoints THEN srv.endpoints[e].mainlines ELSE EmptyMap)

\* through an alias, a method of the snapshot reaches the handler of the
\* snapshot's version; through a mounted version path, the handler of that
\* version (endpoints as constructed: enabled and PUBLIC)
C2_Routes ==
  \A e \in DOMAIN srv.endpoints :
    LET api == srv.endpoints[e] IN
      (api.enable /\ api.level = PUBLIC) =>
        /\ \A a \in DOMAIN api.aliases : \A m \in DOMAIN api.aliases[a].code :
             LET v1 == api.aliases[a].code[m] IN
               /\ v1 \in DOMAIN api.versions
               /\ m \in DOMAIN api.versions[v1].methods
               /\ \A r \in Req(a, m) :
                    aliasClosure(srv, e, a, r).invoked = api.versions[v1].methods[m]
        /\ \A i \in 1..Len(srv.router) :
             (srv.router[i].fn = "reorder" /\ srv.router[i].endpoint = e) =>
               LET v2 == srv.router[i].arg IN
                 /\ v2 \in DOMAIN api.versions
                 /\ \A m \in DOMAIN api.versions[v2].methods :
                      \A r \in Req(srv.router[i].path, m) :
                        CallRoute(srv, srv.router[i], r).invoked =
                          api.versions[v2].methods[m]

\* C2: alias snapshot immutability: an alias declared while method M defaults
\* to V1 keeps routing M to the handler bound in V1 after any later
\* version/handle calls (also after M is bound in a new version V2), and the
\* mounted path of V2 routes M to the handler bound in V2.
C2_AliasSnapshotImmutable == [][C2_Frozen]_vars /\ [] C2_Routes

\* an alias pinned to v1 for PUT while v2 binds PUT to another handler and
\* v2 has a mounted path
C2_Witness ==
  /\ "query" \in DOMAIN srv.endpoints
  /\ LET api == srv.endpoints["query"] IN
       /\ api.enable /\ api.level = PUBLIC
       /\ "/alias" \in DOMAIN api.aliases
       /\ "PUT" \in DOMAIN api.aliases["/alias"].code
       /\ api.aliases["/alias"].code["PUT"] = "v1"
       /\ "v2" \in DOMAIN api.versions
       /\ "PUT" \in DOMAIN api.versions["v2"].methods
       /\ api.versions["v2"].methods["PUT"] # api.versions["v1"].methods["PUT"]
       /\ \E i \in 1..Len(srv.router) :
            /\ srv.router[i] = Route("/v2/ping", "reorder", "query", "v2")
            /\ \A r \in Req("/v2/ping", "PUT") :
                 ServeHTTP(srv, r).invoked = api.versions["v2"].methods["PUT"]
       /\ \A r \in Req("/alias", "PUT") :
            ServeHTTP(srv, r).invoked = api.versions["v1"].methods["PUT"]

(* ------------------------------- C3 ------------------------------------ *)

\* the registry after the end-to-end scenario in the order of the
\* specification: endpoint query, version v1, PUT bound, then "/query" mounted
ScenarioServer(h) ==
  LET s1 == endpoint(EmptyServer, "query")
      s2 == version(s1, "query", "v1").srv
      s3 == handle(s2, "query", "PUT", h).srv
  IN mock(s3, "query", "/query", <<"v1">>).srv

\* C3: after the scenario, PUT /v1/query and PUT /query both invoke the bound
\* PUT handler; GET on either path gives the 404 envelope and invokes no
\* handler.
C3_EndToEndScenario ==
  \A h \in Handlers :
    (Idle /\ srv = ScenarioServer(h)) =>
      /\ \A r \in Req("/v1/query", "PUT") \cup Req("/query", "PUT") :
           ServeHTTP(srv, r) = CallHandler(h, r)
      /\ \A r \in Req("/v1/query", "GET") \cup Req("/query", "GET") :
           IsNotFound(ServeHTTP(srv, r))

C3_Witness ==
  /\ srv = ScenarioServer("pong")
  /\ resp.invoked = "pong"
  /\ resp.body = "{\"code\": 200, \"data\": \"pong\"}"

(* ------------------------------- C4 ------------------------------------ *)

\* C4: on the server NewApiServer builds, PUT on the default alias "/query"
\* reaches the bound PUT handler and is not answered with not-found.
C4_ConstructedAliasServesPut ==
  (srv = NewApiServer(EmptyServer, user_agent).srv) =>
    \A r \in Req("/query", "PUT") :
      /\ ServeHTTP(srv, r).invoked = "resolve"
      /\ ~ IsNotFound(ServeHTTP(srv, r))

(* ------------------------------- C5 ------------------------------------ *)

\* C5: a request to the versioned path of a version never declared on the
\* endpoint (PUT /v2/query when only v1 exists) is answered with the
\* 404-coded JSON envelope.
C5_UndeclaredVersionEnvelope ==
  ("query" \in DOMAIN srv.endpoints
     /\ DOMAIN srv.endpoints["query"].versions = {"v1"}) =>
    \A r \in Req("/v2/query", "PUT") : IsNotFound(ServeHTTP(srv, r))

(* ------------------------------- C6 ------------------------------------ *)

\* C6: uniform miss shape: whichever stage fails (no such endpoint, no such
\* version, no handler for the method), the response is the 404-coded
\* envelope, and the same request gets the same response whatever the stage.
C6_UniformMissShape ==
  (Idle /\ srv.router # <<>>) =>
    \A r \in Requests :
      LET out == ServeHTTP(srv, r) IN
        (out.invoked = NoHandler) =>
          /\ IsNotFound(out)
          /\ \A q \in Req(r.path, r.Method) : ServeHTTP(srv, q) = out

(* ------------------------------- C7 ------------------------------------ *)

\* a path no endpoint of the registry can have mounted
UnknownPath == "/v1/unknown"

\* C7: access fail-closed: on a PRIVATE endpoint a request without the
\* trusted identity, or with it but from a non-local origin, gets (on the
\* version path and on the alias path) exactly the response of a request for
\* an unknown endpoint, and no handler is invoked.
C7_PrivateFailClosed ==
  Idle =>
    \A r \in Requests :
      (/\ Routed(srv, r)
       /\ srv.endpoints[Target(srv, r).endpoint].level = PRIVATE
       /\ ~ (Trusted(r) /\ Local(r))) =>
        /\ ServeHTTP(srv, r).invoked = NoHandler
        /\ ServeHTTP(srv, r) = ServeHTTP(srv, [r EXCEPT !.path = UnknownPath])

(* ------------------------------- C8 ------------------------------------ *)

\* the handler a route finds for a request, the access check left aside
Lookup(s, rt, r) ==
  LET api == s.endpoints[rt.endpoint]
      code == IF rt.fn = "reorder" THEN rt.arg
              ELSE CodeOf(api.aliases[rt.arg], r.Method) IN
    IF code \in DOMAIN api.versions /\ r.Method \in DOMAIN api.versions[code].methods
    THEN api.versions[code].methods[r.Method]
    ELSE NoHandler

\* C8: the token given to NewApiServer is the identity the access policy
\* recognises: a request carrying it reaches the bound handler of an enabled
\* PROTECTED endpoint, and from a local origin that of an enabled PRIVATE
\* endpoint.
C8_TokenRecognised ==
  (Idle /\ srv.router # <<>>) =>
    /\ srv.agent = user_agent
    /\ \A r \in Requests :
      (/\ Routed(srv, r)
       /\ Lookup(srv, Target(srv, r), r) # NoHandler
       /\ Trusted(r)
       /\ LET api == srv.endpoints[Target(srv, r).endpoint] IN
            /\ api.enable
            /\ \/ api.level = PROTECTED
               \/ api.level = PRIVATE /\ Local(r)) =>
        ServeHTTP(srv, r).invoked = Lookup(srv, Target(srv, r), r)

(* ------------------------------- C9 ------------------------------------ *)

\* C9: a dispatch (direct or alias) invokes the handler of a PROTECTED
\* endpoint only for a request with the trusted identity, that of a PRIVATE
\* endpoint only for a request with the trusted identity from a local
\* address, and never that of an endpoint whose level is none of the three.
C9_AccessTiers ==
  Idle =>
    \A r \in Requests :
      (ServeHTTP(srv, r).invoked # NoHandler) =>
        LET api == srv.endpoints[Target(srv, r).endpoint] IN
          /\ api.level \in {PUBLIC, PRIVATE, PROTECTED}
          /\ api.level = PROTECTED => Trusted(r)
          /\ api.level = PRIVATE => (Trusted(r) /\ Local(r))

\* a request for a bound method of an enabled endpoint that is not PUBLIC
\* has been served
C9_Witness ==
  /\ "query" \in DOMAIN srv.endpoints
  /\ srv.endpoints["query"].enable
  /\ srv.endpoints["query"].level \in {PRIVATE, PROTECTED, 3}
  /\ \A r \in Req("/v1/query", "PUT") :
       /\ Routed(srv, r)
       /\ Lookup(srv, Target(srv, r), r) = "resolve"
       /\ ServeHTTP(srv, r) = resp
  /\ resp = Envelope404("Not found query")

(* ------------------------------- C10 ----------------------------------- *)

\* every request routed to a disabled endpoint is answered not-found
C10_Disabled ==
  Idle =>
    \A r \in Requests :
      (Routed(srv, r) /\ ~ srv.endpoints[Target(srv, r).endpoint].enable) =>
        IsNotFound(ServeHTTP(srv, r))

\* the step that enables the endpoint again restores its dispatch
C10_Restored ==
  \A e \in EndpointNames :
    SetEnable(e, TRUE) =>
      \A r \in Requests :
        (/\ Routed(srv', r)
         /\ Target(srv', r).endpoint = e
         /\ srv'.endpoints[e].level = PUBLIC
         /\ Lookup(srv', Target(srv', r), r) # NoHandler) =>
          /\ IsNotFound(ServeHTTP(srv, r))
          /\ ServeHTTP(srv', r).invoked = Lookup(srv', Target(srv', r), r)

\* C10: while the enabled flag of an endpoint is false every dispatch to it
\* (version path or alias, any method, identity, origin and level) ends in
\* the not-found response without invoking a handler; setting the flag again
\* restores dispatch with no other reconfiguration.
C10_DisabledRejectsAll == [] C10_Disabled /\ [][C10_Restored]_vars

\* a request for a bound method of a disabled PUBLIC endpoint has been
\* answered not-found
C10_Witness ==
  /\ "query" \in DOMAIN srv.endpoints
  /\ ~ srv.endpoints["query"].enable
  /\ srv.endpoints["query"].level = PUBLIC
  /\ \A r \in Req("/v1/query", "PUT") :
       /\ Routed(srv, r)
       /\ Lookup(srv, Target(srv, r), r) = "resolve"
       /\ ServeHTTP(srv, r) = resp
  /\ resp = Envelope404("Not found query")

(* ------------------------------- C11 ----------------------------------- *)

\* the endpoint a chained call works on, created on first reference
Receiver(name) == endpoint(srv, name).endpoints[name]

\* C11: handle on an endpoint on which no version has been selected raises a
\* configuration error and leaves the versions, the method bindings, the
\* default-method-version map and the aliases of the endpoint unchanged.
C11_HandleNeedsVersion ==
  [][\A name \in EndpointNames, method \in BindMethods, handler \in Handlers :
       (CallHandle(name, method, handler) /\ Receiver(name).main = "") =>
         /\ panicked'.raised
         /\ srv'.endpoints[name].versions = Receiver(name).versions
         /\ srv'.endpoints[name].mainlines = Receiver(name).mainlines
         /\ srv'.endpoints[name].aliases = Receiver(name).aliases]_vars

\* handle was refused on an endpoint that has an alias but no version
C11_Witness ==
  /\ panicked = Panic("Please specifiy version before doing anything")
  /\ \E e \in DOMAIN srv.endpoints :
       /\ srv.endpoints[e].main = ""
       /\ srv.endpoints[e].versions = EmptyMap
       /\ srv.endpoints[e].mainlines = EmptyMap
       /\ DOMAIN srv.endpoints[e].aliases = {"/alias"}

(* ------------------------------- C12 ----------------------------------- *)

DefaultsBefore(e) ==
  IF e \in DOMAIN srv.endpoints THEN srv.endpoints[e].mainlines ELSE EmptyMap

\* every default entry is kept; a new one names the version current at the
\* call that binds the method; a successful handle leaves the method with a
\* default
C12_Step ==
  /\ \A e \in DOMAIN srv'.endpoints :
       LET new == srv'.endpoints[e].mainlines
           old == DefaultsBefore(e) IN
         /\ \A m \in DOMAIN old : m \in DOMAIN new /\ new[m] = old[m]
         /\ \A m \in DOMAIN new \ DOMAIN old :
              /\ new[m] = srv'.endpoints[e].main
              /\ new[m] \in DOMAIN srv'.endpoints[e].versions
              /\ m \in DOMAIN srv'.endpoints[e].versions[new[m]].methods
  /\ \A name \in EndpointNames, method \in BindMethods, handler \in Handlers :
       (CallHandle(name, method, handler) /\ ~ panicked'.raised) =>
         method \in DOMAIN srv'.endpoints[name].mainlines

\* C12: the default version of a method is set by the first successful
\* handle of that method to the version current at that call, and no later
\* version/handle/alias/mock call changes or removes the entry.
C12_DefaultVersionKept == [][C12_Step]_vars

\* PUT was bound in v2 after its default had been set to v1
C12_Witness ==
  /\ "query" \in DOMAIN srv.endpoints
  /\ LET api == srv.endpoints["query"] IN
       /\ "PUT" \in DOMAIN api.mainlines
       /\ api.mainlines["PUT"] = "v1"
       /\ api.main = "v2"
       /\ "v2" \in DOMAIN api.versions
       /\ "PUT" \in DOMAIN api.versions["v2"].methods

(* ------------------------------- C13 ----------------------------------- *)

\* C13: version isolation: handle(M, h) while V1 is current changes only the
\* binding (V1, M); the method maps of every other version of the endpoint
\* and of every version of every other endpoint stay as they were.
C13_VersionIsolation ==
  [][\A name \in EndpointNames, method \in BindMethods, handler \in Handlers :
       (CallHandle(name, method, handler) /\ ~ panicked'.raised) =>
         LET s0 == endpoint(srv, name)
             cur == s0.endpoints[name].main IN
           /\ DOMAIN srv'.endpoints = DOMAIN s0.endpoints
           /\ \A e \in DOMAIN s0.endpoints :
                /\ DOMAIN srv'.endpoints[e].versions = DOMAIN s0.endpoints[e].versions
                /\ \A v \in DOMAIN s0.endpoints[e].versions :
                     srv'.endpoints[e].versions[v].methods =
                       IF e = name /\ v = cur
                       THEN Put(s0.endpoints[e].versions[v].methods, method, handler)
                       ELSE s0.endpoints[e].versions[v].methods]_vars

\* v2 was created, v1 selected and PUT bound: v2 has no binding
C13_Witness ==
  /\ ncalls = 3
  /\ DOMAIN srv.endpoints = {"query"}
  /\ LET api == srv.endpoints["query"] IN
       /\ DOMAIN api.versions = {"v1", "v2"}
       /\ api.main = "v1"
       /\ DOMAIN api.versions["v1"].methods = {"PUT"}
       /\ api.versions["v2"].methods = EmptyMap

(* ------------------------------- C14 ----------------------------------- *)

\* C14: every call of a dispatch closure (version path or alias), in every
\* reachable configuration and for every request, ends in exactly one of two
\* ways: the resolved handler is invoked, or the 404 envelope is written; it
\* never panics.
C14_DispatchTotal ==
  Idle =>
    \A i \in 1..Len(srv.router) : \A r \in Requests :
      LET out == CallRoute(srv, srv.router[i], r) IN
        /\ ~ out.panic
        /\ (out.invoked # NoHandler) # IsNotFound(out)
        /\ out.invoked # NoHandler => out = CallHandler(Lookup(srv, srv.router[i], r), r)

\* an alias dispatch for a method missing from its snapshot has been
\* answered not-found while the version path reaches the handler
C14_Witness ==
  /\ resp = Envelope404("Not found /query")
  /\ \E i \in 1..Len(srv.router) :
       /\ srv.router[i].fn = "alias"
       /\ srv.router[i].path = "/query"
       /\ \A r \in Req("/query", "PUT") : CallRoute(srv, srv.router[i], r) = resp
  /\ \A r \in Req("/v1/query", "PUT") : ServeHTTP(srv, r).invoked = "resolve"

(* ------------------------------- C15 ----------------------------------- *)

\* the routes appended by the step
Added == SubSeq(srv'.router, Len(srv.router) + 1, Len(srv'.router))

\* the routes mock(path) registers for the versions of the receiver: one per
\* version, pinned to the endpoint and the version key, and nothing else
VersionRoutes(name, path, rts) ==
  LET vs == DOMAIN Receiver(name).versions IN
    /\ Len(rts) = Cardinality(vs)
    /\ {rts[i] : i \in 1..Len(rts)} =
         {Route(srv.base \o "/" \o v \o path, "reorder", name, v) : v \in vs}

\* mock(path) has registered the version routes and then declared one alias
\* for path whose snapshot is the default map of the receiver
Mounted(name, path) ==
  /\ ~ panicked'.raised
  /\ Len(srv'.router) = Len(srv.router) + Cardinality(DOMAIN Receiver(name).versions) + 1
  /\ SubSeq(srv'.router, 1, Len(srv.router)) = srv.router
  /\ VersionRoutes(name, path, SubSeq(Added, 1, Len(Added) - 1))
  /\ Added[Len(Added)] = Route(srv.base \o path, "alias", name, srv.base \o path)
  /\ path \notin DOMAIN Receiver(name).aliases
  /\ DOMAIN srv'.endpoints[name].aliases = DOMAIN Receiver(name).aliases \cup {path}
  /\ srv'.endpoints[name].aliases[path].code = Receiver(name).mainlines
  /\ \A p \in DOMAIN Receiver(name).aliases :
       srv'.endpoints[name].aliases[p] = Receiver(name).aliases[p]

\* mock(path) has registered the version routes and then failed on the alias
MountRefused(name, path) ==
  /\ panicked' = Panic("redefine alias " \o path)
  /\ SubSeq(srv'.router, 1, Len(srv.router)) = srv.router
  /\ VersionRoutes(name, path, Added)
  /\ srv'.endpoints[name].aliases = Receiver(name).aliases

\* C15: mock(suffix) registers, for every version defined at the call, a
\* route {base}/{version}{suffix} pinned to the endpoint and the version, and
\* then declares exactly one alias for {base}{suffix} whose snapshot equals
\* the default-method-to-version map at that moment.
C15_MockMounts ==
  [][\A name \in EndpointNames, path \in MockPaths :
       CallMock(name, path) => Mounted(name, path)]_vars

\* C15 amended: the same when the endpoint has not declared the alias path
\* yet; when it has, the version routes are registered all the same and the
\* call fails with a configuration error, the aliases left as they were.
C15_MockMountsUndeclared ==
  [][\A name \in EndpointNames, path \in MockPaths :
       CallMock(name, path) =>
         IF path \in DOMAIN Receiver(name).aliases
         THEN MountRefused(name, path)
         ELSE Mounted(name, path)]_vars

\* an endpoint with two versions and a default was mounted: two version
\* routes and an alias holding the default
C15_Witness ==
  /\ ~ panicked.raised
  /\ \E e \in DOMAIN srv.endpoints :
       /\ DOMAIN srv.endpoints[e].versions = {"v1", "v2"}
       /\ DOMAIN srv.endpoints[e].aliases = {"/ping"}
       /\ srv.endpoints[e].aliases["/ping"].code = srv.endpoints[e].mainlines
       /\ srv.endpoints[e].mainlines # EmptyMap
       /\ \E i, j, k \in 1..Len(srv.router) :
            /\ i # j /\ i < k /\ j < k
            /\ srv.router[i] = Route("/v1/ping", "reorder", e, "v1")
            /\ srv.router[j] = Route("/v2/ping", "reorder", e, "v2")
            /\ srv.router[k] = Route("/ping", "alias", e, "/ping")

(* ------------------------------- C16 ----------------------------------- *)

\* C16: after any sequence of configuration calls the router holds exactly
\* one registered closure for each mounted version path and each alias path:
\* no path is registered twice.
C16_OneRoutePerPath ==
  ~ panicked.raised =>
    /\ \A i, j \in 1..Len(srv.router) :
         srv.router[i].path = srv.router[j].path => i = j
    /\ \A p \in DeclaredAliases(srv) :
         \E i \in 1..Len(srv.router) : srv.router[i].path = p

(* ------------------------------- C17 ----------------------------------- *)

\* C17: version(k) for a key the endpoint already has sets the current
\* version to k and leaves the bindings of that version, the other versions,
\* the defaults and the aliases unchanged; calling it again changes nothing.
C17_SelectExisting ==
  [][\A name \in EndpointNames, code \in VersionCodes :
       (/\ CallVersion(name, code)
        /\ name \in DOMAIN srv.endpoints
        /\ code \in DOMAIN srv.endpoints[name].versions) =>
         /\ ~ panicked'.raised
         /\ srv' = [srv EXCEPT !.endpoints[name].main = code]
         /\ version(srv', name, code) = [srv |-> srv', panic |-> NoPanic]]_vars

\* after construction v2 was created and given a binding, then v1, which
\* has its binding, was selected again
C17_Witness ==
  /\ ncalls = 3
  /\ ~ panicked.raised
  /\ DOMAIN srv.endpoints = {"query"}
  /\ LET api == srv.endpoints["query"] IN
       /\ api.main = "v1"
       /\ DOMAIN api.versions = {"v1", "v2"}
       /\ api.versions["v1"].methods = [m \in {"PUT"} |-> "resolve"]
       /\ api.versions["v2"].methods # EmptyMap
       /\ DOMAIN api.aliases = {"/query"}

(* ------------------------------- C18 ----------------------------------- *)

\* the endpoint the first reference to a name creates: enabled, PUBLIC, no
\* versions, no aliases, no defaults, no selected version
FreshEndpoint(name) ==
  [main |-> "", name |-> name, enable |-> TRUE, level |-> PUBLIC,
   aliases |-> EmptyMap, versions |-> EmptyMap, mainlines |-> EmptyMap]

\* C18: endpoint lookup is lazy and idempotent: the first reference to a
\* name creates an enabled PUBLIC endpoint without versions, aliases or
\* selected version, and every later reference returns that endpoint with
\* all it has accumulated; no other endpoint and no route is touched.
C18_LazyEndpoint ==
  [][\A name \in EndpointNames :
       CallEndpoint(name) =>
         /\ ~ panicked'.raised
         /\ srv'.router = srv.router
         /\ DOMAIN srv'.endpoints = DOMAIN srv.endpoints \cup {name}
         /\ \A e \in DOMAIN srv.endpoints : srv'.endpoints[e] = srv.endpoints[e]
         /\ name \notin DOMAIN srv.endpoints =>
              srv'.endpoints[name] = FreshEndpoint(name)]_vars

\* the constructed endpoint query was referenced once more and is as the
\* constructor left it, and ping was referenced for the first time
C18_Witness ==
  /\ ncalls = 2
  /\ ~ panicked.raised
  /\ DOMAIN srv.endpoints = {"query", "ping"}
  /\ srv.endpoints["ping"] = FreshEndpoint("ping")
  /\ [srv EXCEPT !.endpoints = [e \in {"query"} |-> @[e]]]
       = NewApiServer(EmptyServer, user_agent).srv

(* ------------------------------- C19 ----------------------------------- *)

\* the HTTP verb a method string stands for
Verb(method) == IF method = "put" THEN "PUT" ELSE method

\* C19: method keys are case-normalized HTTP verbs: a handler bound under
\* any letter case of a verb is stored under the verb and is the handler a
\* request with that verb to the version path reaches.
C19_MethodKeysNormalised ==
  [][\A name \in EndpointNames, method \in BindMethods, handler \in Handlers :
       (CallHandle(name, method, handler) /\ ~ panicked'.raised) =>
         LET api == srv'.endpoints[name]
             methods == api.versions[api.main].methods IN
           /\ DOMAIN methods \subseteq Methods
           /\ Verb(method) \in DOMAIN methods
           /\ methods[Verb(method)] = handler
           /\ \A r \in Requests :
                (r.Method = Verb(method) /\ isAllowed(srv', api, r)) =>
                  reorder(srv', name, api.main, r).invoked = handler]_vars

(* ------------------------------- C20 ----------------------------------- *)

\* the messages handed to the envelope writer: every string of at most
\* MaxLen characters over the delimiters pack looks at and a letter
MaxLen == 3
Chars == {"{", "}", "[", "]", "a"}

RECURSIVE Strs(_)
Strs(n) ==
  IF n = 0 THEN {""}
  ELSE LET S == Strs(n - 1) IN S \cup {c \o x : c \in Chars, x \in S}

Messages == Strs(MaxLen)
Codes == {200, 404}

\* the panic of the Go runtime on message[0] of an empty string
IndexOutOfRange == Panic("index out of range [0] with length 0")

\* what is left after a direct call of an envelope writer
Wrote(out) ==
  /\ Running
  /\ resp' = out
  /\ panicked' = IF out.panic THEN IndexOutOfRange ELSE panicked
  /\ UNCHANGED <<srv, user_agent, ncalls>>

\* self.ok(w)(message)
CallOk(message) == Wrote(ok(message))

\* self.nok(w)(code, message)
CallNok(code, message) == Wrote(nok(code, message))

NextPack ==
  \/ \E message \in Messages : CallOk(message)
  \/ \E code \in Codes, message \in Messages : CallNok(code, message)
  \/ Finish

\* the envelope writers called on a fresh recorder with every message
SpecPack == Init /\ [][NextPack]_vars

StartsWith(message, c) == Len(message) > 0 /\ SubSeq(message, 1, 1) = c
EndsWith(message, c) ==
  Len(message) > 0 /\ SubSeq(message, Len(message), Len(message)) = c

\* the envelope text: the message verbatim when it is delimited as a JSON
\* object or array, quoted otherwise
EnvelopeText(code, message) ==
  IF \/ StartsWith(message, "{") /\ EndsWith(message, "}")
     \/ StartsWith(message, "[") /\ EndsWith(message, "]")
  THEN "{\"code\": " \o ToString(code) \o ", \"data\": " \o message \o "}"
  ELSE "{\"code\": " \o ToString(code) \o ", \"data\": \"" \o message \o "\"}"

\* C20: pack(code, message) writes, for every message, the empty string and
\* one-character strings included, the envelope with the message verbatim
\* when it starts with { and ends with } or starts with [ and ends with ],
\* quoted otherwise; it never fails.
C20_PackTotal ==
  [][/\ \A message \in Messages :
          CallOk(message) =>
            /\ ~ panicked'.raised
            /\ ~ resp'.panic
            /\ resp'.body = EnvelopeText(200, message)
     /\ \A code \in Codes, message \in Messages :
          CallNok(code, message) =>
            /\ ~ panicked'.raised
            /\ ~ resp'.panic
            /\ resp'.body = EnvelopeText(code, message)]_vars

(* ------------------------------- C21 ----------------------------------- *)

\* a step that dispatches a request: Serve leaves its response in the writer
Dispatching == resp = NoResp /\ resp' # NoResp

\* the requests whose outcome is compared before and after a dispatch: every
\* path and method, sent from outside without the identity of the server
Probes == {r \in Requests : r.UserAgent = "curl" /\ r.RemoteAddr = "10.0.0.9:4000"}

Unbound(s, e) ==
  [s EXCEPT !.endpoints[e].versions =
              [v \in DOMAIN @ |-> [methods |-> EmptyMap]]]

\* the handler of the request exists on the route but the policy of the
\* endpoint denies the request
Denied(s, rt, r) ==
  /\ Lookup(s, rt, r) # NoHandler
  /\ ~ isAllowed(s, s.endpoints[rt.endpoint], r)

\* C22: access denial is indistinguishable from a resolution miss: on every
\* route the response to a request whose handler exists but whose access is
\* denied is the response the route writes when no handler is bound for the
\* method, the not-found envelope; nothing else is ever written on denial.
C22_DenialIsMiss ==
  Idle =>
    \A i \in 1..Len(srv.router) : \A r \in Requests :
      LET rt == srv.router[i] IN
        Denied(srv, rt, r) =>
          /\ CallRoute(srv, rt, r) = CallRoute(Unbound(srv, rt.endpoint), rt, r)
          /\ IsNotFound(CallRoute(srv, rt, r))

\* a request to a version path whose handler is bound was denied by the
\* level of the endpoint and answered not-found
C22_Witness ==
  /\ resp # NoResp
  /\ ~ panicked.raised
  /\ \E r \in Requests :
       /\ Routed(srv, r)
       /\ Target(srv, r).fn = "reorder"
       /\ Denied(srv, Target(srv, r), r)
       /\ srv.endpoints[Target(srv, r).endpoint].enable
       /\ resp = ServeHTTP(srv, r)

(* ------------------------------- C23 ----------------------------------- *)

\* Api.alias of the staging tree: self.aliases[path].code = self.mainlines
\* stores the default map itself, not a copy of it
alias_staging(s, self, path) ==
  LET api == s.endpoints[self] IN
    IF path \in DOMAIN api.aliases
    THEN Raise(s, "redefine alias " \o path)
    ELSE LET a == [code |-> api.mainlines]
             s1 == [s EXCEPT !.endpoints[self].aliases = Put(@, path, a)] IN
           Ret(HandleFunc(s1, Route(path, "alias", self, path)))

\* the heap under the staging alias: code and mainlines are one map object,
\* so every alias of an endpoint shows what mainlines holds
SharedCode(s) ==
  [s EXCEPT !.endpoints =
     [e \in DOMAIN @ |->
        [@[e] EXCEPT !.aliases =
           [p \in DOMAIN @ |-> [code |-> s.endpoints[e].mainlines]]]]]

\* srv.endpoint(name).alias(path) with the alias of the staging tree
StagingAlias(name, path) ==
  /\ Running
  /\ ncalls < MaxCalls
  /\ ncalls' = ncalls + 1
  /\ Configure(alias_staging(endpoint(srv, name), name, path))

\* srv.endpoint(name).handle(method, handler): the write to mainlines is a
\* write to the map the aliases hold
StagingHandle(name, method, handler) ==
  /\ Running
  /\ ncalls < MaxCalls
  /\ ncalls' = ncalls + 1
  /\ LET r == handle(endpoint(srv, name), name, method, handler) IN
       Configure([r EXCEPT !.srv = SharedCode(@)])

NextStaging ==
  \/ \E name \in EndpointNames, code \in VersionCodes : CallVersion(name, code)
  \/ \E name \in EndpointNames, method \in BindMethods, handler \in Handlers :
       StagingHandle(name, method, handler)
  \/ \E name \in EndpointNames, path \in AliasPaths \cup MockPaths :
       StagingAlias(name, path)
  \/ \E r \in Requests : Serve(r)
  \/ Finish

\* package api with the alias of the staging tree in place of Api.alias
SpecStaging == Init /\ [][NextStaging]_vars

\* a method that gets its default in this step is in no alias declared
\* before, and a request with it on such an alias is answered not-found
C23_Step ==
  \A e \in DOMAIN srv.endpoints : \A p \in DOMAIN srv.endpoints[e].aliases :
    \A m \in DOMAIN srv'.endpoints[e].mainlines \ DOMAIN srv.endpoints[e].mainlines :
      /\ m \notin DOMAIN srv'.endpoints[e].aliases[p].code
      /\ \A r \in Req(p, m) :
           /\ IsNotFound(aliasClosure(srv', e, p, r))
           /\ isAllowed(srv', srv'.endpoints[e], r) =>
                reorder(srv', e, srv'.endpoints[e].main, r).invoked # NoHandler

\* C23: in every definition of alias in the repository the method-to-version
\* map of an alias is an independent copy of the default map: a method first
\* bound after the alias was declared is not in the alias's map, and alias
\* dispatch for it is answered not-found although the version path invokes
\* the handler.
C23_AliasCopyIndependent == [][C23_Step]_vars

(* ------------------------------- C24 ----------------------------------- *)

\* the version keys version is called with, the empty string among them
VersionKeys == VersionCodes \cup {""}

NextKeys ==
  \/ \E name \in EndpointNames, code \in VersionKeys : CallVersion(name, code)
  \/ \E name \in EndpointNames, method \in BindMethods, handler \in Handlers :
       CallHandle(name, method, handler)
  \/ \E name \in EndpointNames, path \in AliasPaths : CallAlias(name, path)

\* the configuration calls with every version key
SpecKeys == Init /\ [][NextKeys]_vars

\* version(k) was the last selection on the endpoint: its key is current and
\* in the version set
Selected(name) ==
  /\ name \in DOMAIN srv.endpoints
  /\ srv.endpoints[name].main \in DOMAIN srv.endpoints[name].versions

\* C24: handle(M, h) succeeds after version(k) for every key k, the empty
\* string included: h is stored under (k, M), k becomes the default of M if
\* M had none, and a second handle of M in the version replaces the handler
\* and leaves the default of M as it was.
C24_HandleAnyKey ==
  [][\A name \in EndpointNames, method \in BindMethods, handler \in Handlers :
       (CallHandle(name, method, handler) /\ Selected(name)) =>
         LET old == srv.endpoints[name]
             new == srv'.endpoints[name] IN
           /\ ~ panicked'.raised
           /\ new.versions[old.main].methods = Put(old.versions[old.main].methods, method, handler)
           /\ new.mainlines = IF method \in DOMAIN old.mainlines
                              THEN old.mainlines
                              ELSE Put(old.mainlines, method, old.main)]_vars

(* ------------------------------- C25 ----------------------------------- *)

\* the suffixes endpoint e has mounted: mock declares the suffix as alias
Mounts(s, e) == DOMAIN s.endpoints[e].aliases \cap MockPaths

\* version v of endpoint e has a route of its own
HasRoute(s, e, v) ==
  \E i \in 1..Len(s.router) :
    s.router[i].fn = "reorder" /\ s.router[i].endpoint = e /\ s.router[i].arg = v

\* a request for a method bound in the version a mounted path is pinned to
\* invokes the handler bound now, whenever it was bound
LiveBinding ==
  \A i \in 1..Len(srv.router) :
    LET rt == srv.router[i] IN
      rt.fn = "reorder" =>
        \A r \in Requests :
          (/\ r.path = rt.path
           /\ Lookup(srv, rt, r) # NoHandler
           /\ isAllowed(srv, srv.endpoints[rt.endpoint], r)) =>
            ServeHTTP(srv, r) = CallHandler(Lookup(srv, rt, r), r)

\* a version created after the mount has no route: requests to its version
\* path reach no closure of the endpoint
FixedRoutes ==
  \A e \in DOMAIN srv.endpoints : \A v \in DOMAIN srv.endpoints[e].versions :
    ~ HasRoute(srv, e, v) =>
      \A suffix \in Mounts(srv, e) : \A r \in Requests :
        r.path = "/" \o v \o suffix =>
          (Routed(srv, r) => Target(srv, r).endpoint # e)

\* C25: dispatch on a version path resolves against the live state while the
\* set of routes is fixed at mount time: a handler bound to (V, M) after the
\* path of V was mounted is invoked by a later request for M on that path,
\* and a version created after mock has no route, so requests to its version
\* path reach no handler of the endpoint.
C25_LiveStateFixedRoutes == Idle => (LiveBinding /\ FixedRoutes)

(* ------------------------------- C26 ----------------------------------- *)

\* every method of the map refers to a version of the endpoint in which the
\* method has a handler
Resolves(api, code) ==
  \A m \in DOMAIN code :
    /\ code[m] \in DOMAIN api.versions
    /\ m \in DOMAIN api.versions[code[m]].methods

SubMap(f, g) == \A k \in DOMAIN f : k \in DOMAIN g /\ g[k] = f[k]

\* C26: referential integrity of version keys: in every reachable state, for
\* every endpoint, each method of the default map and of every alias
\* snapshot refers to an existing version with a handler for the method, and
\* every alias snapshot is a sub-map of the current default map; so an alias
\* dispatch for a method of the snapshot ends in not-found only when access
\* is denied.
C26_VersionKeysResolve ==
  \A e \in DOMAIN srv.endpoints :
    LET api == srv.endpoints[e] IN
      /\ Resolves(api, api.mainlines)
      /\ \A p \in DOMAIN api.aliases :
           /\ Resolves(api, api.aliases[p].code)
           /\ SubMap(api.aliases[p].code, api.mainlines)
           /\ \A r \in Requests :
                (/\ r.Method \in DOMAIN api.aliases[p].code
                 /\ IsNotFound(aliasClosure(srv, e, p, r))) =>
                  ~ isAllowed(srv, api, r)

\* an alias holds PUT -> v1 while v2 is being configured and a second method
\* has got its default in v2
C26_Witness ==
  \E e \in DOMAIN srv.endpoints :
    LET api == srv.endpoints[e] IN
      /\ api.main = "v2"
      /\ "/alias" \in DOMAIN api.aliases
      /\ api.aliases["/alias"].code = [m \in {"PUT"} |-> "v1"]
      /\ "GET" \in DOMAIN api.mainlines
      /\ api.mainlines["GET"] = "v2"

====
